---- MODULE Spec2Model ----
(***************************************************************************)
(* A model of graphene's Field / FieldDecorator / field_property           *)
(* (graphene/types/field.py) together with the property-style class of     *)
(* graphene/tests/issues/test_1301.py that uses them.                      *)
(*                                                                         *)
(* Python objects are represented as follows.                              *)
(*   - None, strings, callables and instances are TLA+ strings; None is    *)
(*     the string "None".                                                  *)
(*   - A graphene type is a record [base, wraps]: `wraps` counts the       *)
(*     NonNull structures around the base type.                            *)
(*   - A Field / FieldDecorator object is a record of its attributes; its  *)
(*     identity is its index in the heap `descs`.                          *)
(*   - What an operation hands back to its caller is a tagged record       *)
(*     [kind, id, val].                                                    *)
(***************************************************************************)
EXTENDS Integers, Sequences, FiniteSets, TLC

\* How many NonNull structures a field's type may carry.
MaxWraps == 2

None == "None"

----------------------------------------------------------------------------
(* The user code of test_1301.py: a getter, a setter and a deleter over the *)
(* instance attribute _inside_property, plus a second, documented getter    *)
(* that does not read the attribute.                                        *)

Absent == "<absent>"

Instances == {"inst1", "inst2"}

Values == {"special", "not_special"}

\* MyType.__init__: every instance starts with _inside_property = "special".
InitialSlot == "special"

Getters == {"my_property", "documented"}

Setters == {"my_property_setter"}

Deleters == {"my_property_deleter"}

\* What a callable does when called: [exc, val, slot], the exception it
\* raises (None when it returns), the value it returns, and the value of
\* obj._inside_property afterwards.
CallGetter(f, slot) ==
    IF f = "my_property"
    THEN IF slot = Absent
         THEN [exc |-> "AttributeError", val |-> None, slot |-> slot]
         ELSE [exc |-> None, val |-> slot, slot |-> slot]
    ELSE [exc |-> None, val |-> "computed", slot |-> slot]

CallSetter(f, slot, value) ==
    [exc |-> None, val |-> None, slot |-> value]

CallDeleter(f, slot) ==
    IF slot = Absent
    THEN [exc |-> "AttributeError", val |-> None, slot |-> slot]
    ELSE [exc |-> None, val |-> None, slot |-> Absent]

\* inspect.getdoc(fget): only `documented` carries a docstring.
getdoc(f) == IF f = "documented" THEN "doc of documented" ELSE None

----------------------------------------------------------------------------
(* Types and the collaborators Field.__init__ relies on.                    *)

String == [base |-> "String", wraps |-> 0]

\* structures.NonNull(of_type): one more NonNull structure around of_type.
NonNull(of_type) == [of_type EXCEPT !.wraps = @ + 1]

\* NonNull is an external collaborator.  Given a type that is already
\* NonNull it either refuses to construct (its nullable-only assertion) or,
\* with assertions compiled out, wraps once more: both outcomes are kept.
NonNullOutcomes(of_type) ==
    IF of_type.wraps > 0 THEN {"AssertionError", "wrapped"} ELSE {"wrapped"}

\* isinstance(t, NonNull)
IsNonNull(t) == t.wraps > 0

\* utils.get_type(_type): a type object (as opposed to a dotted name or a
\* lambda) resolves to itself.
get_type(t) == t

\* isinstance(x, (Argument, UnmountedType)): the one mounted-argument value
\* the inputs contain.
AnArgument == "<Argument>"

IsArgument(x) == x = AnArgument

\* Python truthiness of None / a str / a function object / a bool.
Truthy(x) == x \notin {None, "", "False"}

\* argument.to_arguments(args or {}, extra_args): the mounted arguments, by
\* name.  args = None is the empty mapping.
to_arguments(args, extra_args) == args \cup extra_args

\* partial(source_resolver, source)
SourceResolver(source) == "partial(source_resolver," \o source \o ")"

----------------------------------------------------------------------------
(* Field.__init__ and FieldDecorator.__init__.  Each yields                 *)
(* [exc, obj]: the exception the constructor raises (None when it           *)
(* returns) and the object constructed.  `nn` is the outcome NonNull takes. *)

NoField ==
    [cls |-> None, fget |-> None, fset |-> None, fdel |-> None,
     name |-> None, _type |-> String, args |-> {}, resolver |-> None,
     deprecation_reason |-> None, description |-> None,
     default_value |-> None]

Field(self, type_, args, resolver, source, deprecation_reason, name, description, required, default_value, extra_args, nn) ==
    IF Truthy(source) /\ Truthy(resolver)
    THEN [exc |-> "AssertionError", obj |-> NoField]
    ELSE IF Truthy(required) /\ nn = "AssertionError"
    THEN [exc |-> "AssertionError", obj |-> NoField]
    ELSE
    LET t      == IF Truthy(required) THEN NonNull(type_) ELSE type_
        extra1 == IF IsArgument(name) THEN extra_args \cup {"name"}
                  ELSE extra_args
        name1  == IF IsArgument(name) THEN None ELSE name
        extra2 == IF IsArgument(source) THEN extra1 \cup {"source"}
                  ELSE extra1
        src1   == IF IsArgument(source) THEN None ELSE source
        res1   == IF Truthy(src1) THEN SourceResolver(src1) ELSE resolver
    IN  [exc |-> None,
         obj |-> [self EXCEPT
                    !.name = name1,
                    !._type = t,
                    !.args = to_arguments(args, extra2),
                    !.resolver = res1,
                    !.deprecation_reason = deprecation_reason,
                    !.description = description,
                    !.default_value = default_value]]

FieldDecorator(fget, fset, fdel, type_, args, name, description, required, default_value, deprecation_reason, extra_args, nn) ==
    LET d    == IF description = None /\ fget # None
                THEN getdoc(fget) ELSE description
        self == [NoField EXCEPT !.cls = "FieldDecorator", !.fget = fget,
                    !.fset = fset, !.fdel = fdel, !.description = d]
    IN  Field(self, type_, args, fget, None, deprecation_reason, name, d,
              required, default_value, extra_args, nn)

\* Field.type
FieldType(self) == get_type(self._type)

\* Field.get_resolver, the class attribute: no override is defined.
get_resolver == None

----------------------------------------------------------------------------
(* What a call hands back: [outcome, exc, result, calls, slot, self].       *)
(*   outcome  "return" or "raise"; exc the exception raised                 *)
(*   self     the object the method was called on, as the call leaves it    *)
(*   result   [kind, id, val]: the object returned                          *)
(*   calls    the stored callables invoked, in order, with their arguments  *)
(*   slot     obj._inside_property after the call                           *)

NoResult == [kind |-> "None", id |-> None, val |-> None]

TheDescriptor(id) == [kind |-> "Field", id |-> id, val |-> None]

AValue(v) == [kind |-> "value", id |-> None, val |-> v]

ACallable(f) == [kind |-> "callable", id |-> None, val |-> f]

AnExceptionObject(e) == [kind |-> "exception", id |-> None, val |-> e]

ACall(f, obj, value) == [fn |-> f, obj |-> obj, value |-> value]

Returns(self, result, calls, slot) ==
    [outcome |-> "return", exc |-> None, result |-> result,
     calls |-> calls, slot |-> slot, self |-> self]

Raises(self, exc, calls, slot) ==
    [outcome |-> "raise", exc |-> exc, result |-> NoResult,
     calls |-> calls, slot |-> slot, self |-> self]

\* Mutant of __get__: the `obj is None` test is missing, so a read through
\* the class is delegated like a read through an instance.
__get__NoClassTest(self, id, obj, slot) ==
    IF self.fget = None
    THEN Returns(self, AnExceptionObject("AttributeError"), <<>>, slot)
    ELSE LET r == CallGetter(self.fget, slot)
             c == <<ACall(self.fget, obj, None)>>
         IN  IF r.exc # None THEN Raises(self, r.exc, c, r.slot)
             ELSE Returns(self, AValue(r.val), c, r.slot)

\* Mutant of __get__: a read through an instance returns the descriptor too.
__get__AlwaysSelf(self, id, obj, slot) ==
    Returns(self, TheDescriptor(id), <<>>, slot)

\* Mutant of __get__: an exception of the getter is returned, not raised.
__get__Swallows(self, id, obj, slot) ==
    IF obj = None
    THEN Returns(self, TheDescriptor(id), <<>>, slot)
    ELSE IF self.fget = None
    THEN Returns(self, AnExceptionObject("AttributeError"), <<>>, slot)
    ELSE LET r == CallGetter(self.fget, slot)
             c == <<ACall(self.fget, obj, None)>>
         IN  IF r.exc # None
             THEN Returns(self, AnExceptionObject(r.exc), c, r.slot)
             ELSE Returns(self, AValue(r.val), c, r.slot)

\* FieldDecorator.__get__(self, obj): `id` is the identity of self, `slot`
\* the value of obj._inside_property (unused when obj is None).
__get__(self, id, obj, slot) ==
    IF obj = None
    THEN Returns(self, TheDescriptor(id), <<>>, slot)
    ELSE IF self.fget = None
    THEN Returns(self, AnExceptionObject("AttributeError"), <<>>, slot)
    ELSE LET r == CallGetter(self.fget, slot)
             c == <<ACall(self.fget, obj, None)>>
         IN  IF r.exc # None THEN Raises(self, r.exc, c, r.slot)
             ELSE Returns(self, AValue(r.val), c, r.slot)

\* Mutant of __set__: a write with no setter stored is ignored silently.
__set__Silent(self, obj, value, slot) ==
    IF self.fset = None
    THEN Returns(self, NoResult, <<>>, slot)
    ELSE LET r == CallSetter(self.fset, slot, value)
             c == <<ACall(self.fset, obj, value)>>
         IN  IF r.exc # None THEN Raises(self, r.exc, c, r.slot)
             ELSE Returns(self, NoResult, c, r.slot)

\* Mutant of __set__: the stored setter is never called.
__set__Dropped(self, obj, value, slot) ==
    IF self.fset = None
    THEN Raises(self, "AttributeError", <<>>, slot)
    ELSE Returns(self, NoResult, <<>>, slot)

\* FieldDecorator.__set__(self, obj, value)
__set__(self, obj, value, slot) ==
    IF self.fset = None
    THEN Raises(self, "AttributeError", <<>>, slot)
    ELSE LET r == CallSetter(self.fset, slot, value)
             c == <<ACall(self.fset, obj, value)>>
         IN  IF r.exc # None THEN Raises(self, r.exc, c, r.slot)
             ELSE Returns(self, NoResult, c, r.slot)

\* FieldDecorator.__delete__(self, obj)
__delete__(self, obj, slot) ==
    IF self.fdel = None
    THEN Raises(self, "AttributeError", <<>>, slot)
    ELSE LET r == CallDeleter(self.fdel, slot)
             c == <<ACall(self.fdel, obj, None)>>
         IN  IF r.exc # None THEN Raises(self, r.exc, c, r.slot)
             ELSE Returns(self, NoResult, c, r.slot)

\* isinstance(self.type, NonNull), as a Python bool
Required(self) == IF IsNonNull(FieldType(self)) THEN "True" ELSE "False"

\* The outcome of a method that ends in the constructor call `c`.
Constructed(self, c) == [exc |-> c.exc, obj |-> c.obj, self |-> self]

\* Mutant of setter: the setter is stored on self, which is returned.
setterInPlace(self, fset, nn) ==
    [exc |-> None, obj |-> [self EXCEPT !.fset = fset],
     self |-> [self EXCEPT !.fset = fset]]

\* FieldDecorator.getter / setter / deleter
getter(self, fget, nn) ==
    Constructed(self,
        FieldDecorator(fget, self.fset, self.fdel, self._type, self.args,
                       self.name, self.description, Required(self),
                       self.default_value, self.deprecation_reason, {}, nn))

setter(self, fset, nn) ==
    Constructed(self,
        FieldDecorator(self.fget, fset, self.fdel, self._type, self.args,
                       self.name, self.description, Required(self),
                       self.default_value, self.deprecation_reason, {}, nn))

deleter(self, fdel, nn) ==
    Constructed(self,
        FieldDecorator(self.fget, self.fset, fdel, self._type, self.args,
                       self.name, self.description, Required(self),
                       self.default_value, self.deprecation_reason, {}, nn))

\* Mutant of wrap_resolve: `parent_resolver or self.resolver`.
wrap_resolvePrefersParent(self, parent_resolver) ==
    IF Truthy(parent_resolver)
    THEN Returns(self, ACallable(parent_resolver), <<>>, None)
    ELSE Returns(self, ACallable(self.resolver), <<>>, None)

\* Field.wrap_resolve(self, parent_resolver)
wrap_resolve(self, parent_resolver) ==
    IF get_resolver # None
    THEN Returns(self, ACallable("get_resolver(" \o parent_resolver \o ")"),
                 <<>>, None)
    ELSE IF Truthy(self.resolver)
    THEN Returns(self, ACallable(self.resolver), <<>>, None)
    ELSE Returns(self, ACallable(parent_resolver), <<>>, None)

\* Field.wrap_subscribe(self, parent_subscribe)
wrap_subscribe(self, parent_subscribe) ==
    Returns(self, ACallable(parent_subscribe), <<>>, None)

\* field_property(func_, **kw) with func_ given, and the wrapper it returns
\* otherwise: both make the same constructor call.
field_property(func, kw, nn) ==
    FieldDecorator(func, None, None, kw.type_, kw.args, kw.name,
                   kw.description, kw.required, kw.default_value,
                   kw.deprication_reason, kw.extra_args, nn)

----------------------------------------------------------------------------
(* Inputs.                                                                  *)

\* The keyword arguments a schema author passes to field_property, Field or
\* FieldDecorator.
Kwargs ==
    { [type_ |-> String, name |-> None, description |-> None,
       required |-> None, args |-> {}, default_value |-> None,
       deprication_reason |-> None, extra_args |-> {}],
      [type_ |-> String, name |-> "custom", description |-> "desc",
       required |-> "True", args |-> {"first"}, default_value |-> "dv",
       deprication_reason |-> "old", extra_args |-> {}],
      [type_ |-> String, name |-> AnArgument, description |-> None,
       required |-> "False", args |-> {}, default_value |-> None,
       deprication_reason |-> None, extra_args |-> {"extra"}] }

\* The resolve_<name> / subscribe_<name> the owning type may define.
Parents == {None, "resolve_my_property"}

Resolvers == {None, "resolve_fn"}

Sources == {None, "attr", AnArgument}

Objs == Instances \cup {None}

----------------------------------------------------------------------------
(* State.  The class body of test_1301.py binds one attribute name and      *)
(* rebinds it with every @my_property.setter / .deleter; the object the     *)
(* name was bound to before stays alive beside the new one.                 *)
(*   descs     the Field objects alive, by reference: "attribute" is the    *)
(*             object the class attribute is bound to, "previous" the       *)
(*             object it was derived from (NoField: none)                   *)
(*   slots     each instance's _inside_property (Absent once deleted)       *)
(*   last      the last call and what it handed back                        *)
(*   supplied  history: for each Field object, the callable of each kind    *)
(*             most recently supplied along the chain of calls that built it*)
(*   history   history: for each instance, the last successful write        *)
(*             ("deleted" after a successful delete, None before any)       *)

VARIABLES descs, slots, last, supplied, history

vars == <<descs, slots, last, supplied, history>>

Refs == {"attribute", "previous"}

NoCall ==
    [op |-> None, d |-> None, obj |-> None, arg |-> None, outcome |-> None,
     exc |-> None, result |-> NoResult, calls |-> <<>>]

Call(op, d, obj, arg, r) ==
    [op |-> op, d |-> d, obj |-> obj, arg |-> arg, outcome |-> r.outcome,
     exc |-> r.exc, result |-> r.result, calls |-> r.calls]

Triple(fget, fset, fdel) == [fget |-> fget, fset |-> fset, fdel |-> fdel]

Alive == {i \in Refs : descs[i].cls # None}

Decorators == {i \in Refs : descs[i].cls = "FieldDecorator"}

Init ==
    /\ descs = [i \in Refs |-> NoField]
    /\ slots = [o \in Instances |-> InitialSlot]
    /\ last = NoCall
    /\ supplied = [i \in Refs |-> Triple(None, None, None)]
    /\ history = [o \in Instances |-> None]

\* A constructor call `c` made by operation `op` on the object `d` (None: a
\* new class attribute).  The new object is bound to the attribute and
\* returned, or the constructor's exception reaches the caller.
Construct(op, d, arg, c, sup) ==
    /\ c.obj._type.wraps <= MaxWraps
    /\ IF c.exc = None
       THEN /\ descs' = [attribute |-> c.obj,
                         previous |-> IF d = None THEN NoField ELSE c.self]
            /\ supplied' = [attribute |-> sup,
                            previous |-> IF d = None
                                         THEN Triple(None, None, None)
                                         ELSE supplied[d]]
            /\ last' = Call(op, d, None, arg,
                            Returns(NoField, TheDescriptor("attribute"),
                                    <<>>, None))
       ELSE /\ descs' = IF d = None THEN descs
                        ELSE [descs EXCEPT ![d] = c.self]
            /\ UNCHANGED supplied
            /\ last' = Call(op, d, None, arg, Raises(NoField, c.exc, <<>>, None))
    /\ UNCHANGED <<slots, history>>

\* @field_property applied to func directly (func_ given).
FieldPropertyDirect(func, kw) ==
    \E nn \in NonNullOutcomes(kw.type_) :
       Construct("field_property", None, func,
                 Constructed(NoField, field_property(func, kw, nn)),
                 Triple(func, None, None))

\* @field_property(**kw) applied to func: func_ is None, the wrapper closure
\* is returned and the decorator syntax calls it with func.
FieldPropertyKeywords(func, kw) ==
    \E nn \in NonNullOutcomes(kw.type_) :
       Construct("wrapper", None, func,
                 Constructed(NoField, field_property(func, kw, nn)),
                 Triple(func, None, None))

\* FieldDecorator(fget, fset, fdel, **kw) constructed directly.
NewFieldDecorator(fget, fset, fdel, kw) ==
    \E nn \in NonNullOutcomes(kw.type_) :
       Construct("FieldDecorator", None, fget,
                 Constructed(NoField,
                    FieldDecorator(fget, fset, fdel, kw.type_, kw.args,
                                   kw.name, kw.description, kw.required,
                                   kw.default_value, kw.deprication_reason,
                                   kw.extra_args, nn)),
                 Triple(fget, fset, fdel))

\* Field(type_, resolver=..., source=..., **kw): a plain field.
NewField(resolver, source, kw) ==
    \E nn \in NonNullOutcomes(kw.type_) :
       Construct("Field", None, resolver,
                 Constructed(NoField,
                    Field([NoField EXCEPT !.cls = "Field"], kw.type_, kw.args,
                          resolver, source, kw.deprication_reason, kw.name,
                          kw.description, kw.required, kw.default_value,
                          kw.extra_args, nn)),
                 Triple(None, None, None))

\* A call on the object `i` that constructs nothing: an attribute access
\* through the class (obj = None) or an instance, or a wrap_* call.
Access(op, i, obj, arg, r, h) ==
    /\ last' = Call(op, i, obj, arg, r)
    /\ descs' = [descs EXCEPT ![i] = r.self]
    /\ IF obj = None
       THEN UNCHANGED <<slots, history>>
       ELSE /\ slots' = [slots EXCEPT ![obj] = r.slot]
            /\ history' = [history EXCEPT ![obj] =
                              IF r.outcome = "return" THEN h ELSE @]
    /\ UNCHANGED supplied

SlotOf(obj) == IF obj = None THEN Absent ELSE slots[obj]

HistoryOf(obj) == IF obj = None THEN None ELSE history[obj]

\* MyType.my_property / inst.my_property
Get(i, obj) ==
    /\ i \in Decorators
    /\ Access("__get__", i, obj, None, __get__(descs[i], i, obj, SlotOf(obj)),
              HistoryOf(obj))

\* inst.my_property = value
Set(i, obj, value) ==
    /\ i \in Decorators
    /\ Access("__set__", i, obj, value,
              __set__(descs[i], obj, value, SlotOf(obj)), value)

\* del inst.my_property
Delete(i, obj) ==
    /\ i \in Decorators
    /\ Access("__delete__", i, obj, None,
              __delete__(descs[i], obj, SlotOf(obj)), "deleted")

\* d.getter(f), d.setter(f), d.deleter(f)
DeriveGetter(i, f) ==
    /\ i \in Decorators
    /\ \E nn \in NonNullOutcomes(descs[i]._type) :
         Construct("getter", i, f, getter(descs[i], f, nn),
                   [supplied[i] EXCEPT !.fget = f])

DeriveSetter(i, f) ==
    /\ i \in Decorators
    /\ \E nn \in NonNullOutcomes(descs[i]._type) :
         Construct("setter", i, f, setter(descs[i], f, nn),
                   [supplied[i] EXCEPT !.fset = f])

DeriveDeleter(i, f) ==
    /\ i \in Decorators
    /\ \E nn \in NonNullOutcomes(descs[i]._type) :
         Construct("deleter", i, f, deleter(descs[i], f, nn),
                   [supplied[i] EXCEPT !.fdel = f])

\* field.wrap_resolve(parent) and field.wrap_subscribe(parent), as the
\* owning type's metaclass calls them.
WrapResolve(i, parent) ==
    /\ i \in Alive
    /\ Access("wrap_resolve", i, None, parent,
              wrap_resolve(descs[i], parent), None)

WrapSubscribe(i, parent) ==
    /\ i \in Alive
    /\ Access("wrap_subscribe", i, None, parent,
              wrap_subscribe(descs[i], parent), None)

Next ==
    \/ \E f \in Getters, kw \in Kwargs : FieldPropertyDirect(f, kw)
    \/ \E f \in Getters, kw \in Kwargs : FieldPropertyKeywords(f, kw)
    \/ \E g \in Getters \cup {None}, s \in Setters \cup {None},
          x \in Deleters \cup {None}, kw \in Kwargs :
            NewFieldDecorator(g, s, x, kw)
    \/ \E r \in Resolvers, s \in Sources, kw \in Kwargs : NewField(r, s, kw)
    \/ \E i \in Refs, o \in Objs : Get(i, o)
    \/ \E i \in Refs, o \in Instances, v \in Values : Set(i, o, v)
    \/ \E i \in Refs, o \in Instances : Delete(i, o)
    \/ \E i \in Refs, f \in Getters : DeriveGetter(i, f)
    \/ \E i \in Refs, f \in Setters : DeriveSetter(i, f)
    \/ \E i \in Refs, f \in Deleters : DeriveDeleter(i, f)
    \/ \E i \in Refs, p \in Parents : WrapResolve(i, p)
    \/ \E i \in Refs, p \in Parents : WrapSubscribe(i, p)

Spec == Init /\ [][Next]_vars

----------------------------------------------------------------------------
(* Properties.                                                              *)

Reads == last.op = "__get__"

InstanceRead == Reads /\ last.obj \in Instances

Derivations == {"getter", "setter", "deleter"}

CallablesOf(f) == Triple(f.fget, f.fset, f.fdel)

\* The schema metadata of a field, its description aside.
MetadataOf(f) ==
    [type |-> FieldType(f), name |-> f.name, args |-> f.args,
     default_value |-> f.default_value,
     deprecation_reason |-> f.deprecation_reason]

\* C1: a read through the owning class returns the FieldDecorator itself
\* and invokes none of the stored callables, whatever they are.
C1_ClassReadReturnsDescriptor ==
    (Reads /\ last.obj = None) =>
        /\ last.outcome = "return"
        /\ last.result = TheDescriptor(last.d)
        /\ last.calls = <<>>

C1_Witness ==
    /\ Reads /\ last.obj = None
    /\ CallablesOf(descs[last.d]) = Triple(None, None, None)
    /\ last.result.kind = "Field"

\* C2: a read through an instance of a descriptor with a stored getter
\* calls that getter exactly once with the instance, calls nothing else,
\* and returns the getter's value, which is not the Field object.
C2_InstanceReadDelegates ==
    (InstanceRead /\ descs[last.d].fget # None) =>
        LET r == CallGetter(descs[last.d].fget, slots[last.obj])
        IN  /\ last.calls = <<ACall(descs[last.d].fget, last.obj, None)>>
            /\ r.exc = None =>
                 /\ last.outcome = "return"
                 /\ last.result = AValue(r.val)
                 /\ last.result.kind # "Field"

C2_Witness ==
    /\ InstanceRead
    /\ descs[last.d].fget = "my_property"
    /\ descs[last.d].fset # None /\ descs[last.d].fdel # None
    /\ last.result = AValue("special")

\* C3 (as claimed): a read through an instance with no getter stored raises
\* AttributeError and never completes normally.
C3_ReadWithoutGetterRaises ==
    (InstanceRead /\ descs[last.d].fget = None) =>
        /\ last.outcome = "raise"
        /\ last.exc = "AttributeError"

\* C4: a write with no setter stored and a delete with no deleter stored
\* raise AttributeError, invoke no stored callable and leave the instances
\* and the descriptors unchanged; a descriptor fresh from field_property
\* stores neither a setter nor a deleter.
C4_Rejected ==
    \/ last.op = "__set__" /\ descs[last.d].fset = None
    \/ last.op = "__delete__" /\ descs[last.d].fdel = None

C4_WriteDeleteWithoutCallableRejected ==
    [][ /\ C4_Rejected' =>
            /\ last'.outcome = "raise"
            /\ last'.exc = "AttributeError"
            /\ last'.calls = <<>>
            /\ slots' = slots
            /\ descs' = descs
        /\ (last'.op \in {"field_property", "wrapper"}
              /\ last'.outcome = "return") =>
            /\ descs'["attribute"].fset = None
            /\ descs'["attribute"].fdel = None ]_vars

C4_Witness ==
    /\ last.op = "__set__"
    /\ last.exc = "AttributeError"
    /\ supplied[last.d] = Triple("my_property", None, None)
    /\ history[last.obj] = "not_special"

\* C5: with the getter and setter of test_1301.py (both on
\* _inside_property), a read through an instance returns the most recent
\* value written through that instance (its initial value before any
\* write), whatever was written through the other instance; each write
\* calls the stored setter exactly once with (instance, value).
C5_ReadReturnsLastWrite ==
    /\ (InstanceRead /\ descs[last.d].fget = "my_property"
          /\ history[last.obj] \in Values) =>
            last.result = AValue(history[last.obj])
    /\ (InstanceRead /\ descs[last.d].fget = "my_property"
          /\ history[last.obj] = None) =>
            last.result = AValue(InitialSlot)
    /\ (last.op = "__set__" /\ descs[last.d].fset # None) =>
            last.calls = <<ACall(descs[last.d].fset, last.obj, last.arg)>>

C5_Witness ==
    /\ InstanceRead
    /\ last.result = AValue("not_special")
    /\ history[last.obj] = "not_special"
    /\ \E o \in Instances : history[o] = "special"

\* C6: a delete calls the stored deleter exactly once with the instance; an
\* AttributeError of the getter leaves the read as an AttributeError; so
\* after a delete (and before a new write) every read through that instance
\* raises AttributeError, while a read through the class still returns the
\* descriptor.
C6_ReadAfterDeleteRaises ==
    /\ (last.op = "__delete__" /\ descs[last.d].fdel # None) =>
            last.calls = <<ACall(descs[last.d].fdel, last.obj, None)>>
    /\ (InstanceRead /\ descs[last.d].fget # None
          /\ CallGetter(descs[last.d].fget, slots[last.obj]).exc # None) =>
            /\ last.outcome = "raise"
            /\ last.exc = CallGetter(descs[last.d].fget, slots[last.obj]).exc
    /\ (InstanceRead /\ descs[last.d].fget = "my_property"
          /\ history[last.obj] = "deleted") =>
            /\ last.outcome = "raise"
            /\ last.exc = "AttributeError"
    /\ (Reads /\ last.obj = None
          /\ \E o \in Instances : history[o] = "deleted") =>
            last.result = TheDescriptor(last.d)

C6_Witness ==
    /\ InstanceRead
    /\ history[last.obj] = "deleted"
    /\ last.outcome = "raise"
    /\ last.exc = "AttributeError"

\* C7 (as claimed): getter(f), setter(f) and deleter(f) each return a
\* FieldDecorator in which only the named callable is replaced by f; so
\* every descriptor holds, for each kind, the callable most recently
\* supplied along the chain that built it.
C7_DerivationReplacesOneCallable ==
    /\ last.op \in Derivations =>
         /\ last.outcome = "return"
         /\ last.result = TheDescriptor("attribute")
         /\ descs["attribute"].cls = "FieldDecorator"
         /\ CallablesOf(descs["attribute"]) =
              [CallablesOf(descs["previous"]) EXCEPT
                 ![CASE last.op = "getter" -> "fget"
                     [] last.op = "setter" -> "fset"
                     [] last.op = "deleter" -> "fdel"] = last.arg]
    /\ \A i \in Decorators : CallablesOf(descs[i]) = supplied[i]

\* C8: wrap_resolve returns the field's own resolver when it has one and
\* parent_resolver otherwise; a FieldDecorator's own resolver is its stored
\* getter; wrap_subscribe returns parent_subscribe.
C8_WrapResolvePrefersOwnResolver ==
    /\ last.op = "wrap_resolve" =>
         /\ last.outcome = "return"
         /\ last.result =
              IF descs[last.d].resolver # None
              THEN ACallable(descs[last.d].resolver)
              ELSE ACallable(last.arg)
         /\ (descs[last.d].cls = "FieldDecorator"
               /\ descs[last.d].fget # None) =>
              last.result = ACallable(descs[last.d].fget)
    /\ last.op = "wrap_subscribe" =>
         /\ last.outcome = "return"
         /\ last.result = ACallable(last.arg)

C8_Witness ==
    /\ last.op = "wrap_resolve"
    /\ descs[last.d].cls = "FieldDecorator"
    /\ last.arg = "resolve_my_property"
    /\ last.result = ACallable("documented")
    /\ supplied["previous"].fget = "my_property"

\* C9 (as claimed): a derivation succeeds and the derived field has the
\* schema metadata of the original: the same type (NonNull wrapped exactly
\* once when required, unwrapped otherwise), name, arguments, default value
\* and deprecation reason, and the description the original was given.
C9_DerivationPreservesMetadata ==
    last.op \in Derivations =>
        /\ last.outcome = "return"
        /\ MetadataOf(descs["attribute"]) = MetadataOf(descs["previous"])
        /\ FieldType(descs["attribute"]).wraps <= 1
        /\ descs["previous"].description # None =>
              descs["attribute"].description = descs["previous"].description

\* C10: no access changes a descriptor, and a derivation leaves the
\* descriptor it was called on unchanged beside the new one.
C10_DescriptorsUnchanged ==
    [][ /\ last'.op \in {"__get__", "__set__", "__delete__",
                         "wrap_resolve", "wrap_subscribe"} =>
            descs' = descs
        /\ last'.op \in Derivations =>
            IF last'.outcome = "return"
            THEN descs'["previous"] = descs[last'.d]
            ELSE descs' = descs ]_vars

C10_Witness ==
    /\ last.op = "setter"
    /\ last.outcome = "return"
    /\ descs["previous"].fset = None
    /\ descs["attribute"].fset = "my_property_setter"
    /\ descs["previous"].fget = descs["attribute"].fget

====
